---- MODULE Spec2Model ----
(***************************************************************************)
(* Model of week1.py: a batch tool that stamps each photo of a directory   *)
(* with its EXIF capture date and saves the result in a sub-directory.     *)
(*                                                                         *)
(* Text (file names, paths, EXIF values, colour arguments) is a sequence   *)
(* of one-character strings, so that split, strip, lower, endswith,        *)
(* basename and join are computed character by character.                  *)
(***************************************************************************)
EXTENDS Integers, Sequences, FiniteSets, TLC

VARIABLES
    \* ---- batch run (main / process_images_in_directory / add_watermark)
    directory,        \* args.directory, as typed by the user
    listing,          \* the entries of the input directory before the run
    dirs,             \* directories that exist in the file system
    fs,               \* files of the file system: set of [path, content]
    pc,               \* position of the interpreter in the run
    run,              \* 1 = first invocation, 2 = second invocation
    output_dir,       \* local of process_images_in_directory
    entries,          \* the list os.listdir returned, being iterated
    idx,              \* index in entries of the entry being handled
    shoot_date,       \* local of the loop body
    img,              \* local of add_watermark: the image it opened
    watermarked_img,  \* local of the loop body: the last value add_watermark returned
    processed_count,  \* local of process_images_in_directory
    outcome,          \* per-file outcome of the current run
    rendered,         \* calls of add_watermark in the current run: [file, text]
    written,          \* paths written by the current run: [path, file, dirThere]
    summary,          \* the count printed by the final line, or NoneVal
    reported,         \* TRUE when main printed the missing-directory error
    firstOut,         \* file system at the end of the first invocation
    existed,          \* whether the input directory existed before the first run
    raised,           \* the call whose exception left main, or "none"
    \* ---- parse_color
    color_str, color, cpc,
    \* ---- the anchor arithmetic of add_watermark
    img_size, bbox, position, anchor, apc

batchVars == <<directory, listing, dirs, fs, pc, run, output_dir, entries, idx,
               shoot_date, img, watermarked_img, processed_count, outcome,
               rendered, written, summary, reported, firstOut, existed,
               raised>>
colorVars == <<color_str, color, cpc>>
anchorVars == <<img_size, bbox, position, anchor, apc>>
vars == <<batchVars, colorVars, anchorVars>>

\* Python's None (distinct from every text, which holds one-character strings)
NoneVal == <<"None">>

Falsy_EmptyOnly(v) == v = <<>>
\* "not v" for an optional text: None and "" are falsy
Falsy(v) == v = NoneVal \/ v = <<>>

------------------------------------------------------------------------------
\* Text helpers

UpperChars == <<"A","B","C","D","E","F","G","H","I","J","K","L","M",
                "N","O","P","Q","R","S","T","U","V","W","X","Y","Z">>
LowerChars == <<"a","b","c","d","e","f","g","h","i","j","k","l","m",
                "n","o","p","q","r","s","t","u","v","w","x","y","z">>
DigitChars == <<"0","1","2","3","4","5","6","7","8","9">>

IsDigit(c) == \E i \in 1..10 : DigitChars[i] = c
DigitVal(c) == (CHOOSE i \in 1..10 : DigitChars[i] = c) - 1
IsSpace(c) == c = " "

RECURSIVE NumVal(_)
\* value of a run of decimal digits
NumVal(s) == IF s = <<>> THEN 0
             ELSE 10 * NumVal(SubSeq(s, 1, Len(s) - 1)) + DigitVal(s[Len(s)])

AllDigits(s) == \A i \in 1..Len(s) : IsDigit(s[i])

\* str.lower()
LowerChar(c) == IF \E i \in 1..26 : UpperChars[i] = c
                THEN LowerChars[CHOOSE i \in 1..26 : UpperChars[i] = c]
                ELSE c
Lower(s) == [i \in 1..Len(s) |-> LowerChar(s[i])]

\* str.endswith(suffix)
EndsWith(s, suf) == /\ Len(suf) <= Len(s)
                    /\ SubSeq(s, Len(s) - Len(suf) + 1, Len(s)) = suf

RECURSIVE Split(_, _)
\* str.split(sep) for a one-character separator: always at least one field
Split(s, sep) ==
    IF \A i \in 1..Len(s) : s[i] # sep THEN <<s>>
    ELSE LET k == CHOOSE i \in 1..Len(s) :
                    s[i] = sep /\ \A j \in 1..(i-1) : s[j] # sep
         IN <<SubSeq(s, 1, k - 1)>> \o Split(SubSeq(s, k + 1, Len(s)), sep)

RECURSIVE LStrip(_)
LStrip(s) == IF s # <<>> /\ IsSpace(s[1]) THEN LStrip(Tail(s)) ELSE s
RECURSIVE RStrip(_)
RStrip(s) == IF s # <<>> /\ IsSpace(s[Len(s)])
             THEN RStrip(SubSeq(s, 1, Len(s) - 1)) ELSE s
\* str.strip()
Strip(s) == RStrip(LStrip(s))

RECURSIVE Join(_, _)
\* sep.join(parts)
Join(parts, sep) == IF parts = <<>> THEN <<>>
                    ELSE IF Len(parts) = 1 THEN parts[1]
                    ELSE parts[1] \o <<sep>> \o Join(Tail(parts), sep)

------------------------------------------------------------------------------
\* int(): optional sign, then decimal digits, single underscores allowed
\* between digits; anything else raises ValueError

IntBody(s) == IF s # <<>> /\ s[1] \in {"+", "-"} THEN Tail(s) ELSE s
IntDigits(s) == SelectSeq(IntBody(s), LAMBDA c : c # "_")
IsIntText(t) ==
    LET s == Strip(t)
        b == IntBody(s)
    IN /\ b # <<>>
       /\ \A i \in 1..Len(b) : IsDigit(b[i]) \/ b[i] = "_"
       /\ b[1] # "_" /\ b[Len(b)] # "_"
       /\ \A i \in 1..(Len(b) - 1) : ~(b[i] = "_" /\ b[i+1] = "_")
IntOf(t) ==
    LET s == Strip(t)
        v == NumVal(IntDigits(s))
    IN IF s[1] = "-" THEN 0 - v ELSE v

------------------------------------------------------------------------------
\* parse_color

DefaultColor == <<255, 255, 255>>

ColorInRange_NoLower(c) == c <= 255
\* 0 <= c <= 255
ColorInRange(c) == 0 <= c /\ c <= 255

\* every raise inside the try block ends in the except branch, which
\* returns the default colour
parse_color(s) ==
    LET parts == Split(s, ",")
    IN IF Len(parts) # 3 THEN DefaultColor
       ELSE IF \E i \in 1..3 : ~IsIntText(parts[i]) THEN DefaultColor
       ELSE LET rgb == [i \in 1..3 |-> IntOf(parts[i])]
            IN IF \A i \in 1..3 : ColorInRange(rgb[i]) THEN rgb
               ELSE DefaultColor

\* the components a --color argument is assembled from
ColorTokens ==
    { <<>>, <<"0">>, <<"2","5","5">>, <<"2","5","6">>, <<"-","1">>,
      <<" ","1","2"," ">>, <<"1","x">>, <<"1","_","0">>, <<"+","5">> }
MaxParts == 4
ColorInputs ==
    { Join(ps, ",") : ps \in UNION { [1..n -> ColorTokens] : n \in 0..MaxParts } }

------------------------------------------------------------------------------
\* the anchor arithmetic of add_watermark

padding == 20
Positions == {"top-left", "center", "bottom-right", "other"}
    \* the three choices of --position (upper left, centre, lower right) and any
    \* other value of the parameter

anchor_xy_NoPadding(pos, img_width, img_height, text_width, text_height) ==
    IF pos = "top-left" THEN <<padding, padding>>
    ELSE IF pos = "center"
         THEN <<(img_width - text_width) \div 2, (img_height - text_height) \div 2>>
    ELSE <<img_width - text_width, img_height - text_height>>
\* if / elif / elif / else on position; // is floor division, as \div
anchor_xy(pos, img_width, img_height, text_width, text_height) ==
    IF pos = "top-left" THEN <<padding, padding>>
    ELSE IF pos = "center"
         THEN <<(img_width - text_width) \div 2, (img_height - text_height) \div 2>>
    ELSE IF pos = "bottom-right"
         THEN <<img_width - text_width - padding, img_height - text_height - padding>>
    ELSE <<img_width - text_width - padding, img_height - text_height - padding>>

MaxDim == 43
MaxText == 2
MaxOff == 1
BBoxes == { <<l, t, l + w, t + h>> :
              l \in 0..MaxOff, t \in 0..MaxOff, w \in 0..MaxText, h \in 0..MaxText }

------------------------------------------------------------------------------
\* get_exif_datetime

\* datetime.strptime(date_str, "%Y:%m:%d %H:%M:%S"): the format compiles to a
\* regular expression, one alternative list per directive, the blank to \s+
FieldYear(s) == Len(s) = 4 /\ AllDigits(s)
FieldMonth(s) ==
    \/ Len(s) = 2 /\ s[1] = "1" /\ s[2] \in {"0", "1", "2"}
    \/ Len(s) = 2 /\ s[1] = "0" /\ IsDigit(s[2]) /\ s[2] # "0"
    \/ Len(s) = 1 /\ IsDigit(s[1]) /\ s[1] # "0"
FieldDay(s) ==
    \/ Len(s) = 2 /\ s[1] = "3" /\ s[2] \in {"0", "1"}
    \/ Len(s) = 2 /\ s[1] \in {"1", "2"} /\ IsDigit(s[2])
    \/ Len(s) = 2 /\ s[1] \in {"0", " "} /\ IsDigit(s[2]) /\ s[2] # "0"
    \/ Len(s) = 1 /\ IsDigit(s[1]) /\ s[1] # "0"
FieldHour(s) ==
    \/ Len(s) = 2 /\ s[1] = "2" /\ s[2] \in {"0", "1", "2", "3"}
    \/ Len(s) = 2 /\ s[1] \in {"0", "1"} /\ IsDigit(s[2])
    \/ Len(s) = 1 /\ IsDigit(s[1])
FieldMinute(s) ==
    \/ Len(s) = 2 /\ s[1] \in {"0", "1", "2", "3", "4", "5"} /\ IsDigit(s[2])
    \/ Len(s) = 1 /\ IsDigit(s[1])
FieldSecond(s) ==
    \/ Len(s) = 2 /\ s[1] = "6" /\ s[2] \in {"0", "1"}
    \/ FieldMinute(s)

RECURSIVE TrailingDigits(_)
\* the run of digits a text ends with
TrailingDigits(s) ==
    IF s # <<>> /\ IsDigit(s[Len(s)])
    THEN TrailingDigits(SubSeq(s, 1, Len(s) - 1)) \o <<s[Len(s)]>>
    ELSE <<>>

IsLeap(y) == (y % 4 = 0 /\ y % 100 # 0) \/ y % 400 = 0
DaysIn(y, m) == IF m = 2 THEN (IF IsLeap(y) THEN 29 ELSE 28)
                ELSE IF m \in {4, 6, 9, 11} THEN 30 ELSE 31

\* the parsed (year, month, day), or NoneVal where strptime raises ValueError
strptime(date_str) ==
    LET f == Split(date_str, ":")
    IN IF Len(f) # 5 THEN NoneVal
       ELSE LET hh == TrailingDigits(f[3])
                before == SubSeq(f[3], 1, Len(f[3]) - Len(hh))
                dd == RStrip(before)
            IN IF /\ FieldYear(f[1]) /\ FieldMonth(f[2])
                  /\ Len(dd) < Len(before) /\ FieldDay(dd) /\ FieldHour(hh)
                  /\ FieldMinute(f[4]) /\ FieldSecond(f[5])
               THEN LET y == NumVal(f[1])
                        m == NumVal(f[2])
                        d == NumVal(LStrip(dd))
                    IN IF y >= 1 /\ d <= DaysIn(y, m) /\ NumVal(f[5]) <= 59
                       THEN <<y, m, d>> ELSE NoneVal
               ELSE NoneVal

RECURSIVE Digits(_, _)
\* n in decimal, zero-padded to width
Digits(n, width) ==
    IF width = 0 THEN <<>>
    ELSE Digits(n \div 10, width - 1) \o <<DigitChars[(n % 10) + 1]>>

\* dt.strftime: four-digit year, U+5E74, two-digit month, U+6708, two-digit
\* day, U+65E5
strftime(dt) ==
    Digits(dt[1], 4) \o <<"u5E74">> \o Digits(dt[2], 2) \o <<"u6708">>
        \o Digits(dt[3], 2) \o <<"u65E5">>

\* exif: what piexif.load gives for the file: [load, tag], load = "error"
\* when it raises, tag = NoneVal when DateTimeOriginal is not in the Exif IFD
get_exif_datetime(exif) ==
    IF exif.load = "error" THEN NoneVal
    ELSE IF exif.tag = NoneVal THEN NoneVal
    ELSE IF strptime(exif.tag) = NoneVal THEN NoneVal
    ELSE strftime(strptime(exif.tag))

------------------------------------------------------------------------------
\* paths

RECURSIVE LastSlash(_)
\* index of the last "/" of a path, 0 when there is none (str.rfind + 1)
LastSlash(p) == IF p = <<>> THEN 0
                ELSE IF p[Len(p)] = "/" THEN Len(p)
                ELSE LastSlash(SubSeq(p, 1, Len(p) - 1))

\* os.path.basename: everything after the last separator
os_path_basename(p) == SubSeq(p, LastSlash(p) + 1, Len(p))

\* os.path.join of two components
os_path_join(a, b) ==
    IF b # <<>> /\ b[1] = "/" THEN b
    ELSE IF a = <<>> \/ a[Len(a)] = "/" THEN a \o b
    ELSE a \o <<"/">> \o b

WatermarkSuffix == <<"_","w","a","t","e","r","m","a","r","k">>

OutputDirOf_Same(d) == d
\* output_dir = os.path.join(directory_path,
\*                           os.path.basename(directory_path) + "_watermark")
OutputDirOf(d) == os_path_join(d, os_path_basename(d) \o WatermarkSuffix)

supported_formats ==
    { <<".","j","p","g">>, <<".","j","p","e","g">>, <<".","p","n","g">>,
      <<".","t","i","f","f">>, <<".","b","m","p">> }

\* filename.lower().endswith(supported_formats)
IsCandidate(filename) == \E suf \in supported_formats : EndsWith(Lower(filename), suf)

FilePaths == { f.path : f \in fs }
os_path_exists(p) == p \in dirs \/ p \in FilePaths

DirectoryMissing_Never == FALSE
\* if not os.path.exists(args.directory)
DirectoryMissing == ~os_path_exists(directory)

ExistOk_False == FALSE
\* os.makedirs(output_dir, exist_ok=True)
ExistOk == TRUE

\* os.makedirs(path, exist_ok): [raises, dirs]; it creates the missing
\* ancestors too, here the input directory
os_makedirs(path, exist_ok) ==
    IF path \in dirs
    THEN [raises |-> ~exist_ok, dirs |-> dirs]
    ELSE [raises |-> FALSE, dirs |-> dirs \cup {directory, path}]

------------------------------------------------------------------------------
\* the inputs of a run

\* the ways the user may write the input directory
Directories == { <<"p">>, <<"p","/">>, <<"q","/","p">> }

TagValid == <<"2","0","2","4",":","0","1",":","1","5"," ","1","0",":","3","0",":","0","0">>
TagShort == <<"2","0","2","4",":","2",":","2","9"," ","1",":","2",":","3">>
TagNoSuchDay == <<"2","0","2","3",":","0","2",":","2","9"," ","1","0",":","3","0",":","0","0">>
TagDashes == <<"2","0","2","4","-","0","1","-","1","5"," ","1","0",":","3","0",":","0","0">>

\* what a file holds: the outcome of piexif.load (class is the tester's label
\* of the sample, which no operation reads), and whether Image.open, the
\* drawing calls and Image.save succeed on it
Readable(tag, class) == [load |-> "ok", tag |-> tag, class |-> class]
Unreadable == [load |-> "error", tag |-> NoneVal, class |-> "unreadable"]
Kind(exif, o, d, sv) == [exif |-> exif, opens |-> o, draws |-> d, saves |-> sv]
FileKinds ==
    { Kind(Readable(TagValid, "valid"), TRUE, TRUE, TRUE),
      Kind(Readable(TagShort, "valid"), TRUE, TRUE, TRUE),
      Kind(Readable(NoneVal, "missing"), TRUE, TRUE, TRUE),
      Kind(Readable(TagNoSuchDay, "malformed"), TRUE, TRUE, TRUE),
      Kind(Readable(TagDashes, "malformed"), TRUE, TRUE, TRUE),
      Kind(Unreadable, TRUE, TRUE, TRUE),
      Kind(Readable(TagValid, "valid"), FALSE, TRUE, TRUE),
      Kind(Readable(TagValid, "valid"), TRUE, FALSE, TRUE),
      Kind(Readable(TagValid, "valid"), TRUE, TRUE, FALSE) }
\* a sub-directory: piexif.load raises on it
DirKind == Kind(Unreadable, FALSE, FALSE, FALSE)

ImageNames == { <<"a",".","j","p","g">>, <<"B",".","J","P","E","G">>,
                <<"d",".","p","n","g">> }
OtherNames == { <<"c",".","t","i","f">> }
DirEntries ==
    { [name |-> n, kind |-> k] : n \in ImageNames, k \in FileKinds }
    \cup { [name |-> n, kind |-> Kind(Readable(TagValid, "valid"), TRUE, TRUE, TRUE)] :
             n \in OtherNames }

\* the orders in which os.listdir may report the names (it promises none)
ListOrders ==
    { << <<"a",".","j","p","g">>, <<"c",".","t","i","f">>,
         <<"B",".","J","P","E","G">>, <<"d",".","p","n","g">> >>,
      << <<"d",".","p","n","g">>, <<"B",".","J","P","E","G">>,
         <<"c",".","t","i","f">>, <<"a",".","j","p","g">> >> }
PosIn(order, n) == CHOOSE k \in 1..Len(order) : order[k] = n

MaxFiles == 3
\* the directories: up to MaxFiles entries with distinct names, any content
Listings ==
    { l \in UNION { [1..n -> DirEntries] : n \in 0..MaxFiles } :
        \E order \in ListOrders :
            \A i, j \in 1..Len(l) :
                i < j => PosIn(order, l[i].name) < PosIn(order, l[j].name) }

\* the content of an input file, and of a stamped output
Original(name) == [orig |-> name]
Stamped(file_path, text) == [src |-> file_path, text |-> text]

------------------------------------------------------------------------------
\* main and process_images_in_directory, one step per call that can fail

ColorIdle == color_str = <<>> /\ color = NoneVal /\ cpc = "idle"
AnchorIdle == /\ img_size = <<0, 0>> /\ bbox = <<0, 0, 0, 0>>
              /\ position = "center" /\ anchor = NoneVal /\ apc = "idle"

InitBatch ==
    /\ directory \in Directories
    /\ existed \in BOOLEAN
    /\ listing \in Listings
    /\ ~existed => listing = <<>>
    /\ dirs = IF existed THEN {directory} ELSE {}
    /\ fs = { [path |-> os_path_join(directory, listing[i].name),
               content |-> Original(listing[i].name)] : i \in 1..Len(listing) }
    /\ pc = "main"
    /\ run = 1
    /\ output_dir = NoneVal
    /\ entries = <<>>
    /\ idx = 1
    /\ shoot_date = NoneVal
    /\ img = NoneVal
    /\ watermarked_img = NoneVal
    /\ processed_count = 0
    /\ outcome = {}
    /\ rendered = {}
    /\ written = {}
    /\ summary = NoneVal
    /\ reported = FALSE
    /\ firstOut = {}
    /\ raised = "none"

Init == InitBatch /\ ColorIdle /\ AnchorIdle

inputs == <<directory, listing, existed>>
locals == <<output_dir, entries, idx, shoot_date, img, watermarked_img,
            processed_count>>

\* main, the directory does not exist: print the error and return
MainMissing ==
    /\ pc = "main"
    /\ DirectoryMissing
    /\ reported' = TRUE
    /\ pc' = "returned"
    /\ UNCHANGED <<colorVars, anchorVars, inputs, locals, dirs, fs, run, outcome, rendered, written,
                   summary, firstOut, raised>>

\* the sub-directories os.listdir(directory) reports once d exists
Subdirs(d, ds) ==
    IF d \in ds /\ d = os_path_join(directory, os_path_basename(d))
    THEN <<[name |-> os_path_basename(d), kind |-> DirKind]>>
    ELSE <<>>

\* main calls process_images_in_directory: output_dir, os.makedirs,
\* processed_count = 0 and the os.listdir the for loop iterates
Start ==
    /\ pc = "main"
    /\ ~DirectoryMissing
    /\ LET od == OutputDirOf(directory)
           mk == os_makedirs(od, ExistOk)
       IN /\ output_dir' = od
          /\ dirs' = mk.dirs
          /\ IF mk.raises
             THEN /\ pc' = "aborted"
                  /\ raised' = "makedirs"
                  /\ entries' = <<>>
             ELSE /\ pc' = "loop"
                  /\ raised' = "none"
                  /\ entries' = listing \o Subdirs(od, mk.dirs)
    /\ idx' = 1
    /\ processed_count' = 0
    /\ UNCHANGED <<colorVars, anchorVars, inputs, fs, run, shoot_date, img, watermarked_img, outcome,
                   rendered, written, summary, reported, firstOut>>

AtEntry == pc = "loop" /\ idx <= Len(entries)
filename == entries[idx].name
file_path == os_path_join(directory, filename)

\* an entry without a recognised extension: the loop goes on
NextEntry ==
    /\ AtEntry
    /\ ~IsCandidate(filename)
    /\ idx' = idx + 1
    /\ UNCHANGED <<colorVars, anchorVars, inputs, dirs, fs, pc, run, output_dir, entries, shoot_date, img,
                   watermarked_img, processed_count, outcome, rendered, written,
                   summary, reported, firstOut, raised>>

\* get_exif_datetime gave nothing: "if not shoot_date: continue"
SkipNoDate ==
    /\ AtEntry
    /\ IsCandidate(filename)
    /\ Falsy(get_exif_datetime(entries[idx].kind.exif))
    /\ shoot_date' = get_exif_datetime(entries[idx].kind.exif)
    /\ outcome' = outcome \cup {[file |-> filename, result |-> "SkippedNoDate"]}
    /\ idx' = idx + 1
    /\ UNCHANGED <<colorVars, anchorVars, inputs, dirs, fs, pc, run, output_dir, entries, img,
                   watermarked_img, processed_count, rendered, written, summary,
                   reported, firstOut, raised>>

\* a date was found: add_watermark(file_path, shoot_date, ...) is called
CallAddWatermark ==
    /\ AtEntry
    /\ IsCandidate(filename)
    /\ ~Falsy(get_exif_datetime(entries[idx].kind.exif))
    /\ shoot_date' = get_exif_datetime(entries[idx].kind.exif)
    /\ rendered' = rendered \cup {[file |-> filename, text |-> shoot_date']}
    /\ pc' = "open"
    /\ UNCHANGED <<colorVars, anchorVars, inputs, dirs, fs, run, output_dir, entries, idx, img,
                   watermarked_img, processed_count, outcome, written, summary,
                   reported, firstOut, raised>>

\* add_watermark returned None: the failure line is printed and the loop goes on
ReturnNone ==
    /\ img' = NoneVal
    /\ watermarked_img' = NoneVal
    /\ outcome' = outcome \cup {[file |-> filename, result |-> "Failed"]}
    /\ idx' = idx + 1
    /\ pc' = "loop"
    /\ UNCHANGED <<colorVars, anchorVars, inputs, dirs, fs, run, output_dir, entries, shoot_date,
                   processed_count, rendered, written, summary, reported, firstOut,
                   raised>>

\* img = Image.open(image_path)
OpenOk ==
    /\ pc = "open"
    /\ entries[idx].kind.opens
    /\ img' = filename
    /\ pc' = "draw"
    /\ UNCHANGED <<colorVars, anchorVars, inputs, dirs, fs, run, output_dir, entries, idx, shoot_date,
                   watermarked_img, processed_count, outcome, rendered, written,
                   summary, reported, firstOut, raised>>

\* Image.open raises: the except branch of add_watermark returns None
OpenFails ==
    /\ pc = "open"
    /\ ~entries[idx].kind.opens
    /\ ReturnNone

\* ImageDraw.Draw, the font, textbbox and the two draw.text calls succeed:
\* add_watermark returns img, which the loop binds to watermarked_img
DrawOk ==
    /\ pc = "draw"
    /\ entries[idx].kind.draws
    /\ watermarked_img' = img
    /\ img' = NoneVal
    /\ pc' = "save"
    /\ UNCHANGED <<colorVars, anchorVars, inputs, dirs, fs, run, output_dir, entries, idx, shoot_date,
                   processed_count, outcome, rendered, written, summary, reported,
                   firstOut, raised>>

\* one of the drawing calls raises: the except branch returns None
DrawFails ==
    /\ pc = "draw"
    /\ ~entries[idx].kind.draws
    /\ ReturnNone


output_path == os_path_join(output_dir, filename)

CountAfterSave_Same(n) == n
\* processed_count += 1
CountAfterSave(n) == n + 1

\* watermarked_img.save(output_path, quality=95) succeeds
SaveOk ==
    /\ pc = "save"
    /\ entries[idx].kind.saves
    /\ fs' = { f \in fs : f.path # output_path }
               \cup { [path |-> output_path, content |-> Stamped(file_path, shoot_date)] }
    /\ written' = written \cup { [path |-> output_path, file |-> filename,
                                  dirThere |-> output_dir \in dirs] }
    /\ processed_count' = CountAfterSave(processed_count)
    /\ outcome' = outcome \cup {[file |-> filename, result |-> "Processed"]}
    /\ idx' = idx + 1
    /\ pc' = "loop"
    /\ UNCHANGED <<colorVars, anchorVars, inputs, dirs, run, output_dir, entries, shoot_date, img,
                   watermarked_img, rendered, summary, reported, firstOut, raised>>

\* watermarked_img.save raises: nothing catches it, the exception leaves
\* process_images_in_directory and main (Image.save removes the file it created)
SaveRaises ==
    /\ pc = "save"
    /\ ~entries[idx].kind.saves
    /\ raised' = "save"
    /\ pc' = "aborted"
    /\ UNCHANGED <<colorVars, anchorVars, inputs, locals, dirs, fs, run, outcome, rendered, written,
                   summary, reported, firstOut>>

\* the listing is exhausted: the summary line is printed and the function
\* returns, which ends the scope of its locals
Summary ==
    /\ pc = "loop"
    /\ idx > Len(entries)
    /\ summary' = processed_count
    /\ watermarked_img' = NoneVal
    /\ pc' = "done"
    /\ UNCHANGED <<colorVars, anchorVars, inputs, dirs, fs, run, output_dir, entries, idx, shoot_date, img,
                   processed_count, outcome, rendered, written, reported, firstOut,
                   raised>>

Terminated == pc \in {"returned", "done", "aborted"}

\* the user runs the program again on the same directory
Rerun ==
    /\ Terminated
    /\ run = 1
    /\ run' = 2
    /\ firstOut' = fs
    /\ pc' = "main"
    /\ output_dir' = NoneVal
    /\ entries' = <<>>
    /\ idx' = 1
    /\ shoot_date' = NoneVal
    /\ img' = NoneVal
    /\ watermarked_img' = NoneVal
    /\ processed_count' = 0
    /\ outcome' = {}
    /\ rendered' = {}
    /\ written' = {}
    /\ summary' = NoneVal
    /\ reported' = FALSE
    /\ raised' = "none"
    /\ UNCHANGED <<colorVars, anchorVars, inputs, dirs, fs>>

Next ==
    \/ MainMissing \/ Start \/ NextEntry \/ SkipNoDate \/ CallAddWatermark
    \/ OpenOk \/ OpenFails \/ DrawOk \/ DrawFails \/ SaveOk \/ SaveRaises
    \/ Summary \/ Rerun

Spec == Init /\ [][Next]_vars

------------------------------------------------------------------------------
\* parse_color applied to the --color argument

BatchIdle ==
    /\ directory = <<"p">> /\ existed = FALSE /\ listing = <<>>
    /\ dirs = {} /\ fs = {} /\ pc = "idle" /\ run = 1
    /\ output_dir = NoneVal /\ entries = <<>> /\ idx = 1
    /\ shoot_date = NoneVal /\ img = NoneVal /\ watermarked_img = NoneVal
    /\ processed_count = 0 /\ outcome = {} /\ rendered = {} /\ written = {}
    /\ summary = NoneVal /\ reported = FALSE /\ firstOut = {} /\ raised = "none"

InitColor == BatchIdle /\ AnchorIdle
             /\ color_str \in ColorInputs /\ color = NoneVal /\ cpc = "start"

\* color = parse_color(args.color)
ParseColor ==
    /\ cpc = "start"
    /\ color' = parse_color(color_str)
    /\ cpc' = "done"
    /\ UNCHANGED <<batchVars, anchorVars, color_str>>

SpecColor == InitColor /\ [][ParseColor]_vars

------------------------------------------------------------------------------
\* the anchor computed by add_watermark for an image and a measured text

InitAnchor == BatchIdle /\ ColorIdle
              /\ img_size \in (0..MaxDim) \X (0..MaxDim)
              /\ bbox \in BBoxes
              /\ position \in Positions
              /\ anchor = NoneVal /\ apc = "start"

\* text_width, text_height from the bounding box, then x, y from position
ComputeAnchor ==
    /\ apc = "start"
    /\ LET text_width == bbox[3] - bbox[1]
           text_height == bbox[4] - bbox[2]
           xy == anchor_xy(position, img_size[1], img_size[2], text_width, text_height)
       IN anchor' = [x |-> xy[1], y |-> xy[2],
                     text_width |-> text_width, text_height |-> text_height]
    /\ apc' = "done"
    /\ UNCHANGED <<batchVars, colorVars, img_size, bbox, position>>

SpecAnchor == InitAnchor /\ [][ComputeAnchor]_vars

------------------------------------------------------------------------------
\* Properties of the batch run

ListingNames == { listing[i].name : i \in 1..Len(listing) }
CandidateNames == { n \in ListingNames : IsCandidate(n) }
InputPaths == { os_path_join(directory, n) : n \in ListingNames }
FilesWith(result) == { o.file : o \in {x \in outcome : x.result = result} }
OpenImages == {img, watermarked_img} \ {NoneVal}
EntryIndex(n) == CHOOSE k \in 1..Len(entries) : entries[k].name = n

\* C1: over an existing directory, no failure on one file (metadata, open or
\* draw, save) lets an exception leave the batch: a run that ended has handled
\* every entry and printed the summary.
C1_NoFileFailureAbortsBatch ==
    existed =>
        /\ raised = "none"
        /\ Terminated => /\ pc = "done"
                         /\ idx > Len(entries)

\* C2: add_watermark is only called with a non-empty date text; a file whose
\* capture date is missing, malformed or unreadable gets None from
\* get_exif_datetime, is skipped, never counted as processed, and nothing is
\* written for it.
C2_RendererOnlyWithDate ==
    /\ \A r \in rendered : r.text # NoneVal /\ Len(r.text) > 0
    /\ \A i \in 1..Len(listing) :
         listing[i].kind.exif.class # "valid" =>
            /\ get_exif_datetime(listing[i].kind.exif) = NoneVal
            /\ \A r \in rendered : r.file # listing[i].name
            /\ listing[i].name \notin FilesWith("Processed")
            /\ \A w \in written : w.file # listing[i].name
            /\ (pc = "done" /\ IsCandidate(listing[i].name))
                  => listing[i].name \in FilesWith("SkippedNoDate")

C2_Witness ==
    /\ pc = "done"
    /\ rendered # {}
    /\ \E i, j \in 1..Len(listing) :
         /\ listing[i].kind.exif.class = "malformed"
         /\ listing[j].kind.exif.class = "missing"
         /\ {listing[i].name, listing[j].name} \subseteq FilesWith("SkippedNoDate")

\* C3: given a directory that does not exist, the run reports the error and
\* returns without raising, handles no file and creates neither the input
\* directory nor the output directory.
C3_MissingDirectoryFailsFast ==
    ~existed =>
        /\ pc \in {"main", "returned"}
        /\ raised = "none"
        /\ rendered = {} /\ outcome = {} /\ written = {}
        /\ dirs = {} /\ fs = {}
        /\ pc = "returned" => reported

C3_Witness == ~existed /\ pc = "returned" /\ reported /\ run = 1

\* C4: when a run has finished (the summary is printed), every candidate file
\* has exactly one outcome among Processed, SkippedNoDate and Failed, the
\* printed count is the number of Processed files, and the files the run wrote
\* are exactly the Processed files, each in the output directory under its own
\* name.
C4_OutcomesAndCount ==
    pc = "done" =>
        /\ \A n \in CandidateNames : Cardinality({o \in outcome : o.file = n}) = 1
        /\ \A o \in outcome : /\ o.file \in CandidateNames
                              /\ o.result \in {"Processed", "SkippedNoDate", "Failed"}
        /\ summary = Cardinality(FilesWith("Processed"))
        /\ { w.file : w \in written } = FilesWith("Processed")
        /\ Cardinality(written) = Cardinality(FilesWith("Processed"))
        /\ \A w \in written : /\ w.path = os_path_join(output_dir, w.file)
                              /\ os_path_basename(w.path) = w.file
                              /\ w.path \in FilePaths
        /\ FilePaths \ InputPaths = { w.path : w \in written }

C4_Witness ==
    /\ pc = "done"
    /\ FilesWith("Processed") # {}
    /\ FilesWith("SkippedNoDate") # {}
    /\ FilesWith("Failed") # {}

\* C7: a second run on the same directory does not fail on the existing
\* output directory, treats neither the output directory nor a file inside it
\* as an input, and ends with the same files and contents as the first run.
C7_SecondRunIdempotent ==
    run = 2 =>
        /\ raised # "makedirs"
        /\ \A r \in rendered : r.file \in ListingNames
        /\ \A o \in outcome : o.file \in ListingNames
        /\ Terminated => fs = firstOut

C7_Witness ==
    /\ run = 2 /\ pc = "done" /\ existed
    /\ Cardinality(written) >= 2
    /\ output_dir \in dirs

\* last component of a directory path, whatever separators it ends with
DirName(d) ==
    LET parts == SelectSeq(Split(d, "/"), LAMBDA c : c # <<>>)
    IN IF parts = <<>> THEN <<>> ELSE parts[Len(parts)]
RECURSIVE StripSlashes(_)
StripSlashes(d) == IF Len(d) > 1 /\ d[Len(d)] = "/"
                   THEN StripSlashes(SubSeq(d, 1, Len(d) - 1)) ELSE d
ExpectedOutputPath(d, name) ==
    StripSlashes(d) \o <<"/">> \o DirName(d) \o WatermarkSuffix \o <<"/">> \o name

\* C8: the output directory exists before any output file is written, and
\* every output file is written to <inputDir>/<basename(inputDir)>_watermark/
\* <originalFilename>, however the input path is written (a trailing separator
\* included).
C8_OutputPathForm ==
    \A w \in written : /\ w.dirThere
                       /\ w.path = ExpectedOutputPath(directory, w.file)

\* C9: the image opened for a file is released before or right after the next
\* file's processing begins, on every outcome path: an open image belongs to
\* the current file or to the candidate just before it, never more than two
\* are open, and none is open once the run has returned.
C9_ImagesReleasedPromptly ==
    /\ Cardinality(OpenImages) <= 2
    /\ pc = "done" => OpenImages = {}
    /\ \A n \in OpenImages :
         \A k \in 1..Len(entries) :
            (EntryIndex(n) < k /\ k < idx) => ~IsCandidate(entries[k].name)

\* p lies inside directory d
InsideDir(p, d) == /\ Len(p) > Len(d) + 1
                   /\ SubSeq(p, 1, Len(d)) = d
                   /\ p[Len(d) + 1] = "/"

\* C10: a run never changes an entry of the input directory: it creates only
\* the output directory and writes only files inside it, at paths that are no
\* input file's path; entries without a recognised extension and skipped or
\* failed files add nothing to the file system.
C10_InputsUntouched ==
    /\ \A n \in ListingNames :
         [path |-> os_path_join(directory, n), content |-> Original(n)] \in fs
    /\ \A w \in written : /\ w.path \notin InputPaths
                          /\ InsideDir(w.path, output_dir)
                          /\ w.file \in FilesWith("Processed")
                          /\ IsCandidate(w.file)
    /\ dirs \subseteq (IF existed THEN {directory} ELSE {}) \cup {OutputDirOf(directory)}
    /\ FilePaths \subseteq
         InputPaths \cup { w.path : w \in written } \cup { f.path : f \in firstOut }

C10_Witness ==
    /\ pc = "done" /\ run = 1
    /\ written # {}
    /\ FilesWith("Failed") # {}
    /\ \E n \in ListingNames : ~IsCandidate(n)

------------------------------------------------------------------------------
\* Properties of parse_color

CommaPositions(s) == { i \in 1..Len(s) : s[i] = "," }
\* the three components of a text with exactly two commas
Components(s) ==
    LET i == CHOOSE a \in CommaPositions(s) : \A b \in CommaPositions(s) : a <= b
        j == CHOOSE a \in CommaPositions(s) : \A b \in CommaPositions(s) : a >= b
    IN << SubSeq(s, 1, i - 1), SubSeq(s, i + 1, j - 1), SubSeq(s, j + 1, Len(s)) >>
WellFormedColor(s) ==
    /\ Cardinality(CommaPositions(s)) = 2
    /\ \A k \in 1..3 : /\ IsIntText(Components(s)[k])
                       /\ IntOf(Components(s)[k]) \in 0..255

\* C5: parse_color returns (r, g, b) exactly when the text is three
\* comma-separated integers, each in 0..255, and (255, 255, 255) for every
\* other text; it never raises.
C5_ParseColorIff ==
    cpc = "done" =>
        IF WellFormedColor(color_str)
        THEN color = << IntOf(Components(color_str)[1]),
                        IntOf(Components(color_str)[2]),
                        IntOf(Components(color_str)[3]) >>
        ELSE color = DefaultColor

C5_Witness ==
    /\ cpc = "done"
    /\ color = <<0, 12, 255>>
    /\ Len(color_str) > 5

------------------------------------------------------------------------------
\* Properties of the anchor

\* C6: for top-left, center and bottom-right and an image of at least
\* 2*margin + text size, the anchor keeps the text box inside the image shrunk
\* by the margin on every side.
C6_AnchorWithinMargins ==
    ( /\ apc = "done"
      /\ position \in {"top-left", "center", "bottom-right"}
      /\ img_size[1] >= 2 * padding + anchor.text_width
      /\ img_size[2] >= 2 * padding + anchor.text_height )
    => /\ padding <= anchor.x
       /\ anchor.x + anchor.text_width <= img_size[1] - padding
       /\ padding <= anchor.y
       /\ anchor.y + anchor.text_height <= img_size[2] - padding

C6_Witness ==
    /\ apc = "done"
    /\ position = "center"
    /\ anchor.text_width = 2 /\ anchor.text_height = 1
    /\ img_size = <<2 * padding + 3, 2 * padding + 2>>
    /\ anchor.x = padding

====
